---- MODULE Spec2Model ----
(***************************************************************************)
(* Model of the equilibrium-equation driver (src/main.cpp): main's control *)
(* flow from Problem::init through solver selection, the solve, the        *)
(* printing of the moments, the optional VectorHandler::storeVector call   *)
(* and the deletion of the solver, together with the DEBUG diagnostic      *)
(* showArgs.  The Problem accessors and the solvers' solve methods live in *)
(* problem.hpp / solver.hpp, which main.cpp only includes; they are        *)
(* modelled from the design document over small integer grids.             *)
(***************************************************************************)
EXTENDS Integers, Sequences, FiniteSets, TLC

\* ------------------------------------------------------------------ bounds
MaxDim == 3        \* dimensions 1..MaxDim
MaxIters == 2      \* iteration counts 1..MaxIters
MaxNodes == 2      \* grid node counts 1..MaxNodes
MaxAccurancy == 1  \* decimal places 0..MaxAccurancy
MaxB == 2          \* birth ratings 1..MaxB
MaxVal == 6        \* grid values are kept in 0..MaxVal

\* ------------------------------------------------- Problem (problem.hpp)
\* Problem::success, Problem::help and the remaining (error) statuses
Statuses == {"success", "help", "parse_error"}

\* Problem::nonlinear_neuman, Problem::linear_neuman, Problem::nystrom and a
\* value standing for "no method specified / unrecognized method"
Methods == {"nonlinear_neuman", "linear_neuman", "nystrom", "unrecognized"}

\* the kernel classes showArgs tells apart, and "constant" for any other
\* class Problem::getKernels can return
Kernels == {"normal", "kurtic", "exponent", "roughgarden",
            "exponent_polynomial", "constant"}

NULL == "NULL"
Paths == {NULL, "data.txt"}

Problems == [dimension : 1..MaxDim, method : Methods, path : Paths,
             nodes : 1..MaxNodes, iters : 1..MaxIters,
             accurancy : 0..MaxAccurancy, b : 1..MaxB,
             alpha : 0..1, beta : 0..1, gamma : 0..1]

ValidProblems == {p \in Problems : p.alpha + p.beta > 0}

\* the Problem object before init has filled it in
DefaultProblem == [dimension |-> 1, method |-> "nonlinear_neuman",
                   path |-> NULL, nodes |-> 1, iters |-> 1, accurancy |-> 0,
                   b |-> 1, alpha |-> 1, beta |-> 0, gamma |-> 0]

\* Problem::step() and Problem::origin(): the grid spacing of an area of
\* size MaxNodes, and the grid's first point
step(p) == MaxNodes \div p.nodes
origin(p) == 0

\* ---------------------------------------------- solvers (solver.hpp)
Solvers == {"LinearSolver", "NystromSolver", "SolverFFT", "SolverDHTNaive"}
NoSolver == "none"

Abs(x) == IF x < 0 THEN -x ELSE x

Clamp(v) == IF v < 0 THEN 0 ELSE IF v > MaxVal THEN MaxVal ELSE v

RECURSIVE Pow10(_)
Pow10(n) == IF n = 0 THEN 1 ELSE 10 * Pow10(n - 1)

\* the asymmetric closure A = 1, B = G = 0 of the LINEAR methods
LinearClosure == [alpha |-> 1, beta |-> 0, gamma |-> 0]

StoredClosure(p) == [alpha |-> p.alpha, beta |-> p.beta, gamma |-> p.gamma]

\* the closure weights a solver works with
ClosureOf(sv, p) ==
    IF sv \in {"LinearSolver", "NystromSolver"} THEN LinearClosure
    ELSE StoredClosure(p)

\*           1   C(x)C(y)    C(x)C(y-x)    C(y)C(y-x)
\* T(x, y) =---(A-------- + B---------- + G---------- - BN^3)
\*          A+B     N            N             N
T(cx, cy, cyx, N, w) ==
    (w.alpha * cx * cy + w.beta * cx * cyx + w.gamma * cy * cyx
       - w.beta * N * N * N * N) \div ((w.alpha + w.beta) * N)

\* first moment: the mean-field density
FirstMoment(p) == p.b

\* the uniform seed C^(0)
Seed(p) == [i \in 1..p.nodes |-> FirstMoment(p)]

RECURSIVE Quadrature(_, _, _, _, _)
\* sum over the grid points 1..j of the kernel-weighted closure term at i
Quadrature(cc, i, j, N, w) ==
    IF j = 0 THEN 0
    ELSE (Len(cc) - Abs(i - j)) * T(cc[i], cc[j], cc[Abs(i - j) + 1], N, w)
           + Quadrature(cc, i, j - 1, N, w)

\* one application of the discretized integral operator F (all reads of
\* C^(k) precede the writes of C^(k+1))
F(cc, w, p) ==
    [i \in 1..Len(cc) |->
        Clamp(p.b + Quadrature(cc, i, Len(cc), FirstMoment(p), w)
                       \div (Len(cc) * Len(cc) + 1))]

\* maximum relative change over all grid points below 10^-accurancy
Converged(old, new, p) ==
    \A i \in 1..Len(old) :
        Abs(new[i] - old[i]) * Pow10(p.accurancy)
            < (IF old[i] = 0 THEN 1 ELSE old[i])

\* LoopContinues with the iteration ceiling ignored
LoopContinuesNoCeiling(done, conv, p) == ~conv

\* the fixed-point loop goes on while the ceiling is not reached and the
\* last application of F did not meet the tolerance
LoopContinues(done, conv, p) == done < p.iters /\ ~conv

RECURSIVE Iterate(_, _, _, _, _)
\* the estimate the loop ends with, from estimate cc after done applications
\* (nxt is the one evaluation of F(cc) of this pass)
Iterate(cc, done, conv, w, p) ==
    IF LoopContinues(done, conv, p)
    THEN CHOOSE r \in {Iterate(nxt, done + 1, Converged(cc, nxt, p), w, p) :
                          nxt \in {F(cc, w, p)}} : TRUE
    ELSE cc

RECURSIVE DirectSolve(_, _, _, _)
\* the solution of the linear system C = F(C), found directly
DirectSolve(cc, fuel, w, p) ==
    CHOOSE r \in {IF fuel = 0 \/ nxt = cc THEN cc
                  ELSE DirectSolve(nxt, fuel - 1, w, p) :
                     nxt \in {F(cc, w, p)}} : TRUE

\* Result: the C sequence and the first moment N
MakeResult(cc, p) == [C |-> cc, N |-> FirstMoment(p)]

\* Result::getC0
getC0(r) == r.C[1]

\* AbstractSolver::solve as a function of the solver type and the Problem
solve(sv, p) ==
    IF sv = "NystromSolver"
    THEN MakeResult(DirectSolve(Seed(p), MaxVal + 1, ClosureOf(sv, p), p), p)
    ELSE MakeResult(Iterate(Seed(p), 0, FALSE, ClosureOf(sv, p), p), p)

\* --------------------------------------------------- main (main.cpp)
\* SelectSolver with the 3D case forgotten
SelectSolverOnly1D(d, m) ==
    IF d = 1
    THEN IF m = "linear_neuman" THEN "LinearSolver"
         ELSE IF m = "nystrom" THEN "NystromSolver"
         ELSE "SolverFFT"
    ELSE "SolverDHTNaive"

\* SelectSolver with the method tested before the dimension
SelectSolverMethodFirst(d, m) ==
    IF m = "linear_neuman" THEN "LinearSolver"
    ELSE IF m = "nystrom" THEN "NystromSolver"
    ELSE IF d = 1 \/ d = 3 THEN "SolverFFT"
    ELSE "SolverDHTNaive"

\* SelectSolver with the linear_neuman branch lost to the default
SelectSolverNoLinear(d, m) ==
    IF d = 1 \/ d = 3
    THEN IF m = "nystrom" THEN "NystromSolver"
         ELSE "SolverFFT"
    ELSE "SolverDHTNaive"

\* the solver main allocates for a Problem of dimension d and method m
SelectSolver(d, m) ==
    IF d = 1 \/ d = 3
    THEN IF m = "linear_neuman" THEN "LinearSolver"
         ELSE IF m = "nystrom" THEN "NystromSolver"
         ELSE "SolverFFT"
    ELSE "SolverDHTNaive"

\* showArgs: the branches that assign methodName; Uninit when none does
Uninit == "uninitialized"
MethodNames == {"neuman nonlinear", "neuman linear", "nystrom"}
MethodNameOf(m) ==
    IF m = "nonlinear_neuman" THEN "neuman nonlinear"
    ELSE IF m = "linear_neuman" THEN "neuman linear"
    ELSE IF m = "nystrom" THEN "nystrom"
    ELSE Uninit

\* showArgs: the dynamic_cast chain; "" when no branch prints
KernelLine(kn) ==
    IF kn = "normal" THEN "Normal kernels"
    ELSE IF kn = "kurtic" THEN "Kurtic kernels"
    ELSE IF kn = "exponent" THEN "Exponent kernels"
    ELSE IF kn = "roughgarden" THEN "Roughgarden kernels"
    ELSE IF kn = "exponent_polynomial" THEN "Exponent polynomial kernels"
    ELSE ""

\* what printf("%s") can show for a pointer that was never assigned
Garbage == "garbage"

\* what the command lines make of init: its status and, on success, the
\* Problem it fills in
CommandLines ==
    [status : {"success"}, problem : ValidProblems]
        \cup [status : Statuses \ {"success"}, problem : {DefaultProblem}]

VARIABLES
    argv,        \* the command line, through what init makes of it
    pc,          \* main's position
    debug,       \* built with DEBUG
    ascetic,     \* built with ASCETIC
    status,      \* int status
    equation,    \* Problem equation
    methodName,  \* showArgs' const char *methodName
    shown,       \* what showArgs printed: kernel line and method name
    solver,      \* AbstractSolver *solver: the type of the object it points to
    closure,     \* the closure weights the running solve works with
    estimate,    \* the running solve's grid vector C
    done,        \* applications of F made by the running solve
    conv,        \* the last application of F met the tolerance
    answer,      \* Result answer
    moments,     \* the moments printed by main
    stored,      \* the arguments of the storeVector calls
    exitCode,    \* the process exit status
    log          \* the calls and returns of the run, in order

vars == <<argv, pc, debug, ascetic, status, equation, methodName, shown, solver,
          closure, estimate, done, conv, answer, moments, stored, exitCode,
          log>>

NoStatus == "none"
NoResult == [C |-> <<>>, N |-> 0]
NoExit == -1
\* exit status of a process killed by SIGSEGV
Segv == 128 + 11

Count(ev) == Cardinality({i \in DOMAIN log : log[i] = ev})
Before(e1, e2) ==
    \A i, j \in DOMAIN log : (log[i] = e1 /\ log[j] = e2) => i < j

\* InitFailed testing for the help status only
InitFailedHelpOnly(st) == st = "help"

\* if((status = equation.init(argc, argv)) != Problem::success)
InitFailed(st) == st # "success"

\* if(status == Problem::help)
HelpRequested(st) == st = "help"

\* FailureExit returning 0 from both branches
FailureExitZero(st) == 0

\* the value main returns from the failure branch
FailureExit(st) == IF HelpRequested(st) THEN 0 ELSE 1

\* PathConfigured with the test dropped: the vector is always stored
PathConfiguredAlways(p) == TRUE

\* if(equation.path())
PathConfigured(p) == p.path # NULL

\* PrintedMoments printing N alone in every build
PrintedMomentsOnlyN(r, asc) == <<r.N>>

\* what main prints of the Result: N alone under ASCETIC, else N and C(0)
PrintedMoments(r, asc) == IF asc THEN <<r.N>> ELSE <<r.N, getC0(r)>>

\* the arguments main hands to VectorHandler::storeVector
StoreArgs(r, p) ==
    [C |-> r.C, path |-> p.path, nodes |-> p.nodes, step |-> step(p),
     origin |-> origin(p), accurancy |-> p.accurancy]

InitWith(dbg) ==
    /\ argv \in CommandLines
    /\ pc = "init"
    /\ debug = dbg
    /\ ascetic \in BOOLEAN
    /\ status = NoStatus
    /\ equation = DefaultProblem
    /\ methodName = Uninit
    /\ shown = <<>>
    /\ solver = NoSolver
    /\ closure = LinearClosure
    /\ estimate = <<>>
    /\ done = 0
    /\ conv = FALSE
    /\ answer = NoResult
    /\ moments = <<>>
    /\ stored = <<>>
    /\ exitCode = NoExit
    /\ log = <<>>

\* the build without DEBUG
Init == InitWith(FALSE)

\* the build with DEBUG
InitDebug == InitWith(TRUE)

\* status = equation.init(argc, argv)
ProblemInit ==
    /\ pc = "init"
    /\ status' = argv.status
    /\ equation' = argv.problem
    /\ pc' = "status"
    /\ log' = Append(log, "init")
    /\ UNCHANGED <<argv, debug, ascetic, methodName, shown, solver, closure,
                   estimate, done, conv, answer, moments, stored, exitCode>>

\* status == Problem::help: printf(REFERENCE_MESSAGE); return 0
ReturnHelp ==
    /\ pc = "status"
    /\ InitFailed(status)
    /\ HelpRequested(status)
    /\ log' = Append(log, "reference")
    /\ exitCode' = FailureExit(status)
    /\ pc' = "exit"
    /\ UNCHANGED <<argv, debug, ascetic, status, equation, methodName, shown,
                   solver, closure, estimate, done, conv, answer, moments,
                   stored>>

\* any other failure: printf("Run ... -h to get reference"); return 1
ReturnError ==
    /\ pc = "status"
    /\ InitFailed(status)
    /\ ~HelpRequested(status)
    /\ log' = Append(log, "guidance")
    /\ exitCode' = FailureExit(status)
    /\ pc' = "exit"
    /\ UNCHANGED <<argv, debug, ascetic, status, equation, methodName, shown,
                   solver, closure, estimate, done, conv, answer, moments,
                   stored>>

\* status == Problem::success: main goes on (to showArgs under DEBUG)
Proceed ==
    /\ pc = "status"
    /\ ~InitFailed(status)
    /\ pc' = IF debug THEN "showArgs" ELSE "new"
    /\ UNCHANGED <<argv, debug, ascetic, status, equation, methodName, shown,
                   solver, closure, estimate, done, conv, answer, moments,
                   stored, exitCode, log>>

\* showArgs(equation): the kernel line, the method branches and the printf
\* that reads methodName.  Reading the unassigned pointer is undefined: the
\* printf shows one of the names, garbage, or the process dies.
ShowArgs ==
    /\ pc = "showArgs"
    /\ methodName' = MethodNameOf(equation.method)
    /\ \E kn \in Kernels :
          \/ /\ methodName' # Uninit
             /\ shown' = <<KernelLine(kn), methodName'>>
             /\ pc' = "new"
             /\ exitCode' = exitCode
             /\ log' = Append(log, "showArgs")
          \/ /\ methodName' = Uninit
             /\ \E txt \in MethodNames \cup {Garbage} :
                   shown' = <<KernelLine(kn), txt>>
             /\ pc' = "new"
             /\ exitCode' = exitCode
             /\ log' = Append(log, "showArgs")
          \/ /\ methodName' = Uninit
             /\ shown' = <<KernelLine(kn)>>
             /\ pc' = "exit"
             /\ exitCode' = Segv
             /\ log' = Append(log, "crash")
    /\ UNCHANGED <<argv, debug, ascetic, status, equation, solver, closure,
                   estimate, done, conv, answer, moments, stored>>

\* solver = new LinearSolver / NystromSolver / SolverFFT / SolverDHTNaive
NewSolver ==
    /\ pc = "new"
    /\ solver' = SelectSolver(equation.dimension, equation.method)
    /\ pc' = "solve"
    /\ log' = Append(log, "new")
    /\ UNCHANGED <<argv, debug, ascetic, status, equation, methodName, shown,
                   closure, estimate, done, conv, answer, moments, stored,
                   exitCode>>

\* solver->solve(equation) is entered: the closure weights and the seed
SolveCall ==
    /\ pc = "solve"
    /\ closure' = ClosureOf(solver, equation)
    /\ estimate' = Seed(equation)
    /\ done' = 0
    /\ conv' = FALSE
    /\ pc' = IF solver = "NystromSolver" THEN "direct" ELSE "loop"
    /\ log' = Append(log, "solve")
    /\ UNCHANGED <<argv, debug, ascetic, status, equation, methodName, shown,
                   solver, answer, moments, stored, exitCode>>

\* one pass of the fixed-point loop: C^(k+1) = F(C^(k))
ApplyF ==
    /\ pc = "loop"
    /\ LoopContinues(done, conv, equation)
    /\ estimate' = F(estimate, closure, equation)
    /\ conv' = Converged(estimate, estimate', equation)
    /\ done' = done + 1
    /\ log' = Append(log, "F")
    /\ UNCHANGED <<argv, pc, debug, ascetic, status, equation, methodName, shown,
                   solver, closure, answer, moments, stored, exitCode>>

\* the loop ends: solve returns the current estimate as the Result
LoopReturn ==
    /\ pc = "loop"
    /\ ~LoopContinues(done, conv, equation)
    /\ answer' = MakeResult(estimate, equation)
    /\ pc' = "print"
    /\ log' = Append(log, "result")
    /\ UNCHANGED <<argv, debug, ascetic, status, equation, methodName, shown,
                   solver, closure, estimate, done, conv, moments, stored,
                   exitCode>>

\* NystromSolver::solve: the linear system is solved once, no iteration
DirectReturn ==
    /\ pc = "direct"
    /\ estimate' = DirectSolve(estimate, MaxVal + 1, closure, equation)
    /\ answer' = MakeResult(estimate', equation)
    /\ pc' = "print"
    /\ log' = Append(log, "result")
    /\ UNCHANGED <<argv, debug, ascetic, status, equation, methodName, shown,
                   solver, closure, done, conv, moments, stored, exitCode>>

\* printf of answer.N (ASCETIC) or of answer.N and answer.getC0()
PrintMoments ==
    /\ pc = "print"
    /\ moments' = PrintedMoments(answer, ascetic)
    /\ pc' = "store"
    /\ log' = Append(log, "moments")
    /\ UNCHANGED <<argv, debug, ascetic, status, equation, methodName, shown,
                   solver, closure, estimate, done, conv, answer, stored,
                   exitCode>>

\* if(equation.path()) VectorHandler::storeVector(...)
StoreVector ==
    /\ pc = "store"
    /\ PathConfigured(equation)
    /\ stored' = Append(stored, StoreArgs(answer, equation))
    /\ pc' = "delete"
    /\ log' = Append(log, "storeVector")
    /\ UNCHANGED <<argv, debug, ascetic, status, equation, methodName, shown,
                   solver, closure, estimate, done, conv, answer, moments,
                   exitCode>>

\* SkipStore returning at once, past the delete
SkipStoreLeak ==
    /\ pc = "store"
    /\ ~PathConfigured(equation)
    /\ pc' = "return"
    /\ UNCHANGED <<argv, debug, ascetic, status, equation, methodName, shown,
                   solver, closure, estimate, done, conv, answer, moments,
                   stored, exitCode, log>>

\* the path is null: nothing is stored
SkipStore ==
    /\ pc = "store"
    /\ ~PathConfigured(equation)
    /\ pc' = "delete"
    /\ UNCHANGED <<argv, debug, ascetic, status, equation, methodName, shown,
                   solver, closure, estimate, done, conv, answer, moments,
                   stored, exitCode, log>>

\* delete solver
DeleteSolver ==
    /\ pc = "delete"
    /\ pc' = "return"
    /\ log' = Append(log, "delete")
    /\ UNCHANGED <<argv, debug, ascetic, status, equation, methodName, shown,
                   solver, closure, estimate, done, conv, answer, moments,
                   stored, exitCode>>

\* return 0
ReturnSuccess ==
    /\ pc = "return"
    /\ exitCode' = 0
    /\ pc' = "exit"
    /\ UNCHANGED <<argv, debug, ascetic, status, equation, methodName, shown,
                   solver, closure, estimate, done, conv, answer, moments,
                   stored, log>>

Next ==
    \/ ProblemInit
    \/ ReturnHelp
    \/ ReturnError
    \/ Proceed
    \/ NewSolver
    \/ SolveCall
    \/ ApplyF
    \/ LoopReturn
    \/ DirectReturn
    \/ PrintMoments
    \/ StoreVector
    \/ SkipStore
    \/ DeleteSolver
    \/ ReturnSuccess

NextDebug == Next \/ ShowArgs

Spec == Init /\ [][Next]_vars

\* main runs to its end: every step that can be taken is taken
FairSpec == Init /\ [][Next]_vars /\ WF_vars(Next)

SpecDebug == InitDebug /\ [][NextDebug]_vars

\* ------------------------------------------------------------ properties
\* main has allocated its solver
Allocated == Count("new") > 0

\* C1: for a successfully initialized Problem of dimension 1 or 3 the
\* allocated solver is decided by the method alone: linear_neuman gives
\* LinearSolver, nystrom gives NystromSolver, every other method value
\* gives SolverFFT.
C1_DispatchByMethod ==
    (Allocated /\ equation.dimension \in {1, 3}) =>
        /\ status = "success"
        /\ equation.method = "linear_neuman" => solver = "LinearSolver"
        /\ equation.method = "nystrom" => solver = "NystromSolver"
        /\ equation.method \notin {"linear_neuman", "nystrom"}
              => solver = "SolverFFT"

C1_Witness ==
    /\ pc = "exit"
    /\ Allocated
    /\ equation.dimension = 3
    /\ equation.method = "unrecognized"
    /\ solver = "SolverFFT"

\* C2: for a successfully initialized Problem whose dimension is neither 1
\* nor 3 the allocated solver is SolverDHTNaive whatever the method; the
\* LINEAR solvers are allocated only in the 1D or 3D case.
C2_OtherDimensionsNaive ==
    Allocated =>
        /\ equation.dimension \notin {1, 3} => solver = "SolverDHTNaive"
        /\ solver \in {"LinearSolver", "NystromSolver"}
              => equation.dimension \in {1, 3}

C2_Witness ==
    /\ pc = "exit"
    /\ Allocated
    /\ equation.dimension = 2
    /\ equation.method = "nystrom"
    /\ solver = "SolverDHTNaive"

\* C3: when init returns a status other than success, no solver is
\* constructed, solve is never called, no moments are printed and
\* storeVector is never called.
C3_NoSolverAfterFailedInit ==
    (status # NoStatus /\ status # "success") =>
        /\ solver = NoSolver
        /\ Count("new") = 0
        /\ Count("solve") = 0
        /\ Count("moments") = 0 /\ moments = <<>>
        /\ Count("storeVector") = 0 /\ stored = <<>>

C3_Witness ==
    /\ pc = "exit"
    /\ status = "parse_error"
    /\ exitCode = 1

\* C4: the exit status is a function of the init status: it is 1, after
\* the guidance has been printed, exactly when the status is neither
\* success nor help; on help the reference message is printed and the exit
\* status is 0; on success the exit status is 0.
C4_ExitStatus ==
    pc = "exit" =>
        /\ exitCode = 1 <=> status \notin {"success", "help"}
        /\ exitCode # 0 => exitCode = 1 /\ Count("guidance") = 1
        /\ status = "help" => exitCode = 0 /\ Count("reference") = 1
        /\ status = "success" => exitCode = 0
        /\ Count("guidance") = 1 <=> exitCode = 1

C4_Witness ==
    /\ pc = "exit"
    /\ status = "help"
    /\ exitCode = 0
    /\ Count("reference") = 1

\* the run ended after a successful init
SucceededRun == pc = "exit" /\ status = "success"

\* what a run that ended after a successful init has done, but for the
\* moments it printed
OneSolveDone ==
    /\ Count("new") = 1
    /\ solver \in Solvers
    /\ Count("solve") = 1
    /\ Count("result") = 1
    /\ Before("new", "solve") /\ Before("solve", "result")
    /\ answer = solve(solver, equation)
    /\ Count("moments") = 1
    /\ Before("result", "moments")
    /\ exitCode = 0

\* C5 as stated: once init has returned success exactly one solver is
\* selected, solve is called exactly once on it with the Problem, N and
\* C(0) of its Result are printed and the process ends with exit status 0.
C5_Original ==
    /\ [](SucceededRun =>
            OneSolveDone /\ moments = <<answer.N, answer.C[1]>>)
    /\ [](status = "success" => exitCode \in {NoExit, 0})
    /\ (status = "success") ~> (pc = "exit" /\ exitCode = 0)

\* C5 as amended: the same, where the printed moments are N and C(0) in
\* the build without ASCETIC and N alone in the build with ASCETIC.
C5_AlwaysResult ==
    /\ [](SucceededRun =>
            /\ OneSolveDone
            /\ ~ascetic => moments = <<answer.N, answer.C[1]>>
            /\ ascetic => moments = <<answer.N>>)
    /\ [](status = "success" => exitCode \in {NoExit, 0})
    /\ (status = "success") ~> (pc = "exit" /\ exitCode = 0)

C5_Witness ==
    /\ SucceededRun
    /\ ascetic
    /\ Count("solve") = 1
    /\ moments = <<answer.N>>
    /\ exitCode = 0

\* C6: storeVector is called if and only if init succeeded and the path is
\* not null; it is called at most once, only after solve has returned, with
\* the Result's C and the Problem's path, nodes, step, origin and accurancy.
C6_StoreFollowsSolve ==
    /\ Len(stored) = Count("storeVector")
    /\ Len(stored) <= 1
    /\ Len(stored) = 1 =>
          /\ status = "success"
          /\ equation.path # NULL
          /\ Count("result") = 1
          /\ Before("result", "storeVector")
          /\ stored[1].C = answer.C
          /\ stored[1].path = equation.path
          /\ stored[1].nodes = equation.nodes
          /\ stored[1].step = step(equation)
          /\ stored[1].origin = origin(equation)
          /\ stored[1].accurancy = equation.accurancy
    /\ pc = "exit" =>
          (Len(stored) = 1 <=> (status = "success" /\ equation.path # NULL))

C6_Witness ==
    /\ pc = "exit"
    /\ Len(stored) = 1
    /\ stored[1].C = answer.C
    /\ Len(answer.C) = MaxNodes

\* the Problem p with the stored closure weights replaced
WithWeights(p, a, b, g) ==
    [p EXCEPT !.alpha = a, !.beta = b, !.gamma = g]

C8_LoopTerminates ==
    /\ [](done <= equation.iters /\ Count("F") = done)
    /\ [][(pc = "loop" /\ (conv \/ done >= equation.iters)) =>
             (done' = done /\ pc' = "print" /\ answer'.C = estimate)]_vars
    /\ [](Count("result") > 0 /\ solver # "NystromSolver" =>
             /\ answer.C = estimate
             /\ conv \/ done = equation.iters
             /\ exitCode \in {NoExit, 0})
    /\ (pc = "loop") ~> (pc = "exit" /\ exitCode = 0)

C8_Witness ==
    /\ pc = "exit"
    /\ solver = "SolverFFT"
    /\ ~conv
    /\ done = equation.iters
    /\ done = MaxIters
    /\ answer.C = estimate
    /\ exitCode = 0

\* C9: at most one solver is allocated, only after a successful init; it
\* is deleted exactly once before main returns, after the solve and after
\* the storeVector call if there is one, and nothing uses it afterwards.
C9_SolverLifetime ==
    /\ Count("new") <= 1
    /\ Count("delete") <= Count("new")
    /\ Count("new") = 1 => status = "success"
    /\ Before("new", "solve")
    /\ Before("solve", "delete") /\ Before("F", "delete")
    /\ Before("result", "delete")
    /\ Before("storeVector", "delete")
    /\ Count("delete") = 1 =>
          /\ Count("result") = 1
          /\ equation.path # NULL => Count("storeVector") = 1
    /\ pc = "exit" => Count("delete") = Count("new")

C9_Witness ==
    /\ pc = "exit"
    /\ Count("new") = 1
    /\ Count("storeVector") = 1
    /\ Count("delete") = 1

====
